---- MODULE Spec2Model ----
(***************************************************************************)
(* A model of miio/click_common.py: the option validators, the command     *)
(* descriptor (DeviceGroup.Command), the class-level command registry      *)
(* (DeviceGroupMeta), the dynamic command group (DeviceGroup), the echo    *)
(* decorator (echo_return_status) and the exception-handling wrapper       *)
(* (ExceptionHandlerGroup).                                                *)
(*                                                                         *)
(* Strings are sequences of code points, so that len(), lower(), strip(),  *)
(* sorted() and "%s" formatting are computed and not assumed.              *)
(***************************************************************************)
EXTENDS Integers, Sequences, FiniteSets, TLC

VARIABLES
    \* ---- validate_token applied to one raw option value
    tvalue,        \* the raw --token value
    tresult,       \* what validate_token produced for it
    tpc,           \* "call" | "done"
    \* ---- definition of one device class and a DeviceGroup over it
    body,          \* the statements of the class body, in declaration order
    usesMeta,      \* whether the class is built by DeviceGroupMeta
    executed,      \* how many statements of the class body have run
    namespace,     \* the class namespace: an insertion-ordered dict
    scanned,       \* how many namespace items DeviceGroupMeta.__new__ has visited
    commands,      \* the dict `commands` being built, then _device_group_commands
    factory,       \* which get_device_group the class ends up with
    groupCommands, \* DeviceGroup.commands (None until __init__ has run)
    listing,       \* the last result of list_commands
    prevListing,   \* the result of the call before it
    nlist,         \* how many times list_commands was called
    mpc,           \* position in the class definition
    \* ---- one descriptor, materialised by Command.wrap and then run
    declared,      \* the decorators given to device_command, in declaration order
    decorators,    \* Command.decorators
    wfunc,         \* `func` in Command.wrap: wrappers outermost first, then the base
    wi,            \* how many iterations of wrap's loop have run
    applied,       \* the decorators called so far, in call order
    wtrace,        \* what running the command enters and leaves
    wpc,           \* "new" | "wrap" | "command" | "ran"
    \* ---- one call of a function wrapped by echo_return_status
    msg_fmt,       \* the pre formatter
    result_msg_fmt,\* the post formatter
    call_kwargs,   \* the keyword arguments the caller passes
    kwargs,        \* the wrapper's local `kwargs` dict
    behaviour,     \* what the wrapped function does: return a value, or raise
    events,        \* what happened, in order: lines echoed, the function called
    epc,           \* "pre" | "call" | "post" | "done" | raised exception
    \* ---- one invocation of a DeviceGroup under an ExceptionHandlerGroup
    chain,         \* the group's chain flag
    ip,            \* the raw --ip value
    token,         \* the raw --token value
    gco,           \* the object of the enclosing context: a GlobalContextObject or None
    argv,          \* the subcommands given, each a name and its argument
    ipDone,        \* validate_ip has accepted --ip
    tokenDone,     \* validate_token has accepted --token
    ctxObj,        \* ctx.obj of the group's context
    entered,       \* group_callback has been entered
    missed,        \* get_command was asked for a name the table does not hold
    resolved,      \* how many subcommands have been resolved
    ran,           \* how many subcommands have completed
    clog,          \* constructions of the device class and method calls, in order
    raised,        \* the exception in flight, or "none"
    output,        \* the lines the wrapper has echoed
    cpc            \* position in the invocation

tokenVars == <<tvalue, tresult, tpc>>

metaVars == <<body, usesMeta, executed, namespace, scanned, commands, factory,
              groupCommands, listing, prevListing, nlist, mpc>>

wrapVars == <<declared, decorators, wfunc, wi, applied, wtrace, wpc>>

echoVars == <<msg_fmt, result_msg_fmt, call_kwargs, kwargs, behaviour, events, epc>>

cliVars == <<chain, ip, token, gco, argv, ipDone, tokenDone, ctxObj, entered,
             missed, resolved, ran, clog, raised, output, cpc>>

vars == <<tokenVars, metaVars, wrapVars, echoVars, cliVars>>

notToken == <<metaVars, wrapVars, echoVars, cliVars>>
notMeta == <<tokenVars, wrapVars, echoVars, cliVars>>
notWrap == <<tokenVars, metaVars, echoVars, cliVars>>
notEcho == <<tokenVars, metaVars, wrapVars, cliVars>>
notCli == <<tokenVars, metaVars, wrapVars, echoVars>>

-----------------------------------------------------------------------------
(* Strings                                                                 *)

\* str(n) for a natural number: its decimal digits, as "%s" % n renders it.
RECURSIVE IntToStr(_)
IntToStr(n) ==
    IF n < 10 THEN <<48 + n>>
    ELSE IntToStr(n \div 10) \o <<48 + (n % 10)>>

\* The number a string of decimal digits denotes (used to read messages back).
RECURSIVE DecimalValue(_)
DecimalValue(s) ==
    IF s = <<>> THEN 0
    ELSE 10 * DecimalValue(SubSeq(s, 1, Len(s) - 1)) + (s[Len(s)] - 48)

\* A string of n copies of the code point c.
Repeat(c, n) == [i \in 1..n |-> c]

NoResult == [exc |-> "Pending", value |-> <<>>, msg |-> [fmt |-> "", arg |-> <<>>]]

-----------------------------------------------------------------------------
(* Validators                                                              *)

\* The required token length.
TokenLen == 32

\* The longest raw token tried.
MaxTokenLen == 34

\* Code points a raw token is made of: 'a' (hex), 'z' (not hex), ' '.
TokenChars == {97, 122, 32}

\* click.BadParameter(fmt % arg)
BadParameter(fmt, arg) ==
    [exc |-> "BadParameter", value |-> <<>>, msg |-> [fmt |-> fmt, arg |-> arg]]

Returned(value) ==
    [exc |-> "None", value |-> value, msg |-> [fmt |-> "", arg |-> <<>>]]

\* A plausible slip: an off-by-one comparison that lets longer tokens through.
validate_token_atleast(value) ==
    LET token_len == Len(value) IN
    IF token_len < TokenLen
    THEN BadParameter("Token length != 32 chars: %s", IntToStr(token_len))
    ELSE Returned(value)

validate_token(value) ==
    LET token_len == Len(value) IN
    IF token_len # TokenLen
    THEN BadParameter("Token length != 32 chars: %s", IntToStr(token_len))
    ELSE Returned(value)

TokenInit ==
    /\ tvalue \in {Repeat(c, n) : c \in TokenChars, n \in 0..MaxTokenLen}
    /\ tresult = NoResult
    /\ tpc = "call"

TokenIdle ==
    /\ tvalue = <<>>
    /\ tresult = NoResult
    /\ tpc = "idle"

ValidateToken ==
    /\ tpc = "call"
    /\ tresult' = validate_token(tvalue)
    /\ tpc' = "done"
    /\ UNCHANGED tvalue
    /\ UNCHANGED notToken

-----------------------------------------------------------------------------
(* Python's insertion-ordered dict, as a sequence of [key, val] items.      *)

DictHas(d, k) == \E i \in 1..Len(d) : d[i].key = k

DictGet(d, k) == d[CHOOSE i \in 1..Len(d) : d[i].key = k].val

\* d[k] = v: a key already present keeps its position, a new key goes last.
DictSet(d, k, v) ==
    IF DictHas(d, k)
    THEN [i \in 1..Len(d) |-> IF d[i].key = k THEN [key |-> k, val |-> v] ELSE d[i]]
    ELSE Append(d, [key |-> k, val |-> v])

DictKeys(d) == [i \in 1..Len(d) |-> d[i].key]

-----------------------------------------------------------------------------
(* Command descriptor and class-level registry                              *)

\* The most statements a class body has.
MaxDecls == 3

\* The most calls of list_commands on one group.
MaxListCalls == 2

\* Attribute names a class body binds for its methods: "S", "s", "Sa".
MethodNames == {<<83>>, <<115>>, <<83, 97>>}

\* The name= argument of device_command: none, "s" or "b".
ExplicitNames == {<<>>, <<115>>, <<98>>}

\* "get_device_group"
GetDeviceGroup ==
    <<103, 101, 116, 95, 100, 101, 118, 105, 99, 101, 95, 103, 114, 111, 117, 112>>

\* A statement of a class body binds `key` to a value: a method decorated with
\* device_command(name=name), an undecorated method, a non-callable attribute,
\* or the class's own get_device_group.
Statements ==
    [key : MethodNames, kind : {"command"}, name : ExplicitNames]
    \cup [key : {<<115>>}, kind : {"plain", "attr"}, name : {<<>>}]
    \cup [key : {GetDeviceGroup}, kind : {"plain"}, name : {<<>>}]

\* str.lower() on ASCII.
Lower(s) == [i \in 1..Len(s) |-> IF s[i] >= 65 /\ s[i] <= 90 THEN s[i] + 32 ELSE s[i]]

\* The value the i-th statement binds. A decorated function carries its
\* descriptor (Command.__call__): the descriptor is identified by the statement
\* that made it and holds the explicit name and the function (its __name__).
ValueOf(stmts, i) ==
    [kind |-> stmts[i].kind, id |-> i, name |-> stmts[i].name, fname |-> stmts[i].key]

\* callable(val)
Callable(val) == val.kind # "attr"

\* getattr(val, '_device_group_command', None) is not None
HasDescriptor(val) == val.kind = "command"

\* Command.command_name: self.name or self.func.__name__.lower()
command_name(desc) == IF desc.name # <<>> THEN desc.name ELSE Lower(desc.fname)

\* A plausible slip: an entry already present is kept (first declaration wins).
RegisterFirstWins(cmds, val) ==
    IF ~Callable(val) THEN cmds
    ELSE IF ~HasDescriptor(val) THEN cmds
    ELSE IF DictHas(cmds, command_name(val)) THEN cmds
    ELSE DictSet(cmds, command_name(val), val)

\* One iteration of the loop of DeviceGroupMeta.__new__ over namespace.items().
Register(cmds, val) ==
    IF ~Callable(val) THEN cmds
    ELSE IF ~HasDescriptor(val) THEN cmds
    ELSE DictSet(cmds, command_name(val), val)

\* Python's < on strings: lexicographic by code point, a proper prefix first.
LexLess(a, b) ==
    \E i \in 1..(Len(a) + 1) :
        /\ i <= Len(b)
        /\ \A j \in 1..(i - 1) : a[j] = b[j]
        /\ (i = Len(a) + 1 \/ a[i] < b[i])

RECURSIVE InsertSorted(_, _)
InsertSorted(x, s) ==
    IF s = <<>> THEN <<x>>
    ELSE IF LexLess(Head(s), x) THEN <<Head(s)>> \o InsertSorted(x, Tail(s))
    ELSE <<x>> \o s

\* sorted(seq)
RECURSIVE Sorted(_)
Sorted(s) == IF s = <<>> THEN <<>> ELSE InsertSorted(s[Len(s)], Sorted(SubSeq(s, 1, Len(s) - 1)))

\* A plausible slip: the keys in the table's own (insertion) order.
list_commands_unsorted(cmds) == DictKeys(cmds)

\* DeviceGroup.list_commands
list_commands(cmds) == Sorted(DictKeys(cmds))

ClassBodies == UNION {[1..n -> Statements] : n \in 0..MaxDecls}

MetaInit ==
    /\ body \in ClassBodies
    /\ usesMeta \in BOOLEAN
    /\ executed = 0
    /\ namespace = <<>>
    /\ scanned = 0
    /\ commands = <<>>
    /\ factory = "none"
    /\ groupCommands = [set |-> FALSE, table |-> <<>>]
    /\ listing = <<>>
    /\ prevListing = <<>>
    /\ nlist = 0
    /\ mpc = "body"

MetaIdle ==
    /\ body = <<>>
    /\ usesMeta = TRUE
    /\ executed = 0
    /\ namespace = <<>>
    /\ scanned = 0
    /\ commands = <<>>
    /\ factory = "none"
    /\ groupCommands = [set |-> FALSE, table |-> <<>>]
    /\ listing = <<>>
    /\ prevListing = <<>>
    /\ nlist = 0
    /\ mpc = "idle"

\* The class body runs: its next statement binds a name in the namespace.
ExecStatement ==
    /\ mpc = "body"
    /\ executed < Len(body)
    /\ executed' = executed + 1
    /\ namespace' = DictSet(namespace, body[executed + 1].key, ValueOf(body, executed + 1))
    /\ UNCHANGED <<body, usesMeta, scanned, commands, factory, groupCommands,
                   listing, prevListing, nlist, mpc>>
    /\ UNCHANGED notMeta

\* The class body is over: the metaclass's __new__ starts with commands = {}.
\* A class that does not use DeviceGroupMeta is built by type.
EndOfBody ==
    /\ mpc = "body"
    /\ executed = Len(body)
    /\ mpc' = IF usesMeta THEN "scan" ELSE "class"
    /\ UNCHANGED <<body, usesMeta, executed, namespace, scanned, commands, factory,
                   groupCommands, listing, prevListing, nlist>>
    /\ UNCHANGED notMeta

\* for key, val in namespace.items(): ...
MetaScan ==
    /\ mpc = "scan"
    /\ scanned < Len(namespace)
    /\ scanned' = scanned + 1
    /\ commands' = Register(commands, namespace[scanned + 1].val)
    /\ UNCHANGED <<body, usesMeta, executed, namespace, factory, groupCommands,
                   listing, prevListing, nlist, mpc>>
    /\ UNCHANGED notMeta

\* After the loop: the table is stored in the namespace, the default
\* get_device_group is installed unless the class has its own, and the class is
\* created.
MetaFinish ==
    /\ mpc = "scan"
    /\ scanned = Len(namespace)
    /\ factory' = IF DictHas(namespace, GetDeviceGroup) THEN "own" ELSE "default"
    /\ mpc' = "class"
    /\ UNCHANGED <<body, usesMeta, executed, namespace, scanned, commands,
                   groupCommands, listing, prevListing, nlist>>
    /\ UNCHANGED notMeta

\* DeviceGroup.__init__: self.commands = getattr(device_class,
\* '_device_group_commands', None); RuntimeError when there is none.
DeviceGroupInit ==
    /\ mpc = "class"
    /\ IF usesMeta
       THEN /\ groupCommands' = [set |-> TRUE, table |-> commands]
            /\ mpc' = "group"
       ELSE /\ groupCommands' = groupCommands
            /\ mpc' = "RuntimeError"
    /\ UNCHANGED <<body, usesMeta, executed, namespace, scanned, commands, factory,
                   listing, prevListing, nlist>>
    /\ UNCHANGED notMeta

\* DeviceGroup.list_commands(ctx)
ListCommands ==
    /\ mpc = "group"
    /\ nlist < MaxListCalls
    /\ listing' = list_commands(groupCommands.table)
    /\ prevListing' = listing
    /\ nlist' = nlist + 1
    /\ UNCHANGED <<body, usesMeta, executed, namespace, scanned, commands, factory,
                   groupCommands, mpc>>
    /\ UNCHANGED notMeta

-----------------------------------------------------------------------------
(* Command.__init__ and Command.wrap                                        *)

\* The most decorators one descriptor is declared with, and how many
\* different decorators there are.
MaxDecorators == 3

\* The function handed to wrap.
BaseFunc == <<0>>

\* decorator(func): a wrapper around func, entered before it and left after it.
Decorate(d, func) == <<d>> \o func

\* list.reverse()
Reverse(s) == [i \in 1..Len(s) |-> s[Len(s) + 1 - i]]

\* A plausible slip: the decorators are kept in declaration order.
CommandDecoratorsKept(decs) == decs

\* Command.__init__: self.decorators = list(decorators); self.decorators.reverse()
CommandDecorators(decs) == Reverse(decs)

\* What a call of func enters and leaves, in order.
RECURSIVE RunFunc(_)
RunFunc(func) ==
    IF Len(func) = 1 THEN <<[e |-> "body", d |-> func[1]]>>
    ELSE <<[e |-> "enter", d |-> func[1]]>> \o RunFunc(Tail(func))
         \o <<[e |-> "leave", d |-> func[1]]>>

WrapInit ==
    /\ declared \in UNION {[1..n -> 1..MaxDecorators] : n \in 0..MaxDecorators}
    /\ decorators = <<>>
    /\ wfunc = BaseFunc
    /\ wi = 0
    /\ applied = <<>>
    /\ wtrace = <<>>
    /\ wpc = "new"

WrapIdle ==
    /\ declared = <<>>
    /\ decorators = <<>>
    /\ wfunc = BaseFunc
    /\ wi = 0
    /\ applied = <<>>
    /\ wtrace = <<>>
    /\ wpc = "idle"

\* device_command(*decorators) -> DeviceGroup.Command(name, decorators)
CommandInit ==
    /\ wpc = "new"
    /\ decorators' = CommandDecorators(declared)
    /\ wpc' = "wrap"
    /\ UNCHANGED <<declared, wfunc, wi, applied, wtrace>>
    /\ UNCHANGED notWrap

\* for decorator in self.decorators: func = decorator(func)
WrapApply ==
    /\ wpc = "wrap"
    /\ wi < Len(decorators)
    /\ wfunc' = Decorate(decorators[wi + 1], wfunc)
    /\ applied' = Append(applied, decorators[wi + 1])
    /\ wi' = wi + 1
    /\ UNCHANGED <<declared, decorators, wtrace, wpc>>
    /\ UNCHANGED notWrap

\* return click.command(self.command_name, **self.kwargs)(func)
WrapReturn ==
    /\ wpc = "wrap"
    /\ wi = Len(decorators)
    /\ wpc' = "command"
    /\ UNCHANGED <<declared, decorators, wfunc, wi, applied, wtrace>>
    /\ UNCHANGED notWrap

\* The command runs: its callback is the function wrap built.
CommandRun ==
    /\ wpc = "command"
    /\ wtrace' = RunFunc(wfunc)
    /\ wpc' = "ran"
    /\ UNCHANGED <<declared, decorators, wfunc, wi, applied>>
    /\ UNCHANGED notWrap

-----------------------------------------------------------------------------
(* echo_return_status                                                       *)

\* A format string is a sequence of literal text and replacement fields.
Lit(s) == [t |-> "lit", s |-> s, f |-> ""]
Field(f) == [t |-> "field", s |-> <<>>, f |-> f]

\* A formatter is a format string or a callable; the callable formatters here
\* compute their message from the keyword arguments they name.
StrFmt(parts) == [kind |-> "str", parts |-> parts]
CallableFmt(parts) == [kind |-> "callable", parts |-> parts]

\* Values of keyword arguments and results: integers and strings.
IntVal(n) == [t |-> "int", n |-> n, s |-> <<>>]
StrVal(s) == [t |-> "str", n |-> 0, s |-> s]

\* format(value) with an empty format spec, i.e. str(value)
Str(v) == IF v.t = "int" THEN IntToStr(v.n) ELSE v.s

\* "doing {x}", "{x}", "{result}", and a callable giving "{x}!"
PreFormats ==
    { StrFmt(<<>>),
      StrFmt(<<Lit(<<100, 111, 105, 110, 103, 32>>), Field("x")>>),
      StrFmt(<<Field("x")>>),
      StrFmt(<<Field("result")>>),
      CallableFmt(<<Field("x"), Lit(<<33>>)>>) }

\* "{result}" (the default), "got {result}", "", "{y}", and a callable
\* giving "{x}={result}"
PostFormats ==
    { StrFmt(<<Field("result")>>),
      StrFmt(<<Lit(<<103, 111, 116, 32>>), Field("result")>>),
      StrFmt(<<>>),
      StrFmt(<<Field("y")>>),
      CallableFmt(<<Field("x"), Lit(<<61>>), Field("result")>>) }

\* 5, "", " ", " a"
ArgValues == {IntVal(5), StrVal(<<>>), StrVal(<<32>>), StrVal(<<32, 97>>)}

\* The wrapped function returns 10, "" or "a ", or raises.
Behaviours ==
    {[raises |-> FALSE, ret |-> v] : v \in {IntVal(10), StrVal(<<>>), StrVal(<<97, 32>>)}}
    \cup {[raises |-> TRUE, ret |-> IntVal(0)]}

\* bool(fmt): an empty string is false, a callable is true.
Truthy(fmt) == fmt.kind = "callable" \/ fmt.parts # <<>>

\* Whether rendering fmt against kw raises KeyError.
MissingKey(fmt, kw) ==
    \E i \in 1..Len(fmt.parts) :
        fmt.parts[i].t = "field" /\ fmt.parts[i].f \notin DOMAIN kw

\* str.format(**kw)
RECURSIVE Format(_, _)
Format(parts, kw) ==
    IF parts = <<>> THEN <<>>
    ELSE (IF Head(parts).t = "lit" THEN Head(parts).s ELSE Str(kw[Head(parts).f]))
         \o Format(Tail(parts), kw)

\* msg_fmt(**kwargs) if callable(msg_fmt) else msg_fmt.format(**kwargs)
Render(fmt, kw) ==
    IF fmt.kind = "callable" THEN Format(fmt.parts, kw) ELSE Format(fmt.parts, kw)

IsSpace(c) == c \in {9, 10, 11, 12, 13, 32}

RECURSIVE LStrip(_)
LStrip(s) == IF s # <<>> /\ IsSpace(Head(s)) THEN LStrip(Tail(s)) ELSE s

RECURSIVE RStrip(_)
RStrip(s) ==
    IF s # <<>> /\ IsSpace(s[Len(s)]) THEN RStrip(SubSeq(s, 1, Len(s) - 1)) ELSE s

\* str.strip()
Strip(s) == RStrip(LStrip(s))

\* click.echo(line)
Echoed(line) == [e |-> "echo", s |-> line]

\* func(*args, **kwargs)
Called == [e |-> "call", s |-> <<>>]

\* if msg: click.echo(msg.strip())
EchoIfAny(evs, msg) == IF msg # <<>> THEN Append(evs, Echoed(Strip(msg))) ELSE evs

\* A plausible slip: a 'result' the caller passed is kept.
SetResultDefault(kw, r) ==
    [k \in DOMAIN kw \cup {"result"} |-> IF k \in DOMAIN kw THEN kw[k] ELSE r]

\* kwargs['result'] = r
SetResult(kw, r) ==
    [k \in DOMAIN kw \cup {"result"} |-> IF k = "result" THEN r ELSE kw[k]]

EchoInit ==
    /\ msg_fmt \in PreFormats
    /\ result_msg_fmt \in PostFormats
    /\ call_kwargs \in {("x" :> v) : v \in ArgValues}
                       \cup {("x" :> v) @@ ("result" :> IntVal(7)) : v \in ArgValues}
    /\ kwargs = call_kwargs
    /\ behaviour \in Behaviours
    /\ events = <<>>
    /\ epc = "pre"

EchoIdle ==
    /\ msg_fmt = StrFmt(<<>>)
    /\ result_msg_fmt = StrFmt(<<>>)
    /\ call_kwargs = ("x" :> IntVal(0))
    /\ kwargs = call_kwargs
    /\ behaviour = [raises |-> TRUE, ret |-> IntVal(0)]
    /\ events = <<>>
    /\ epc = "idle"

\* wrap(*args, **kwargs), up to the call of func: the pre message.
EchoPre ==
    /\ epc = "pre"
    /\ IF ~Truthy(msg_fmt)
       THEN /\ events' = events
            /\ epc' = "call"
       ELSE IF MissingKey(msg_fmt, kwargs)
       THEN /\ events' = events
            /\ epc' = "KeyError"
       ELSE /\ events' = EchoIfAny(events, Render(msg_fmt, kwargs))
            /\ epc' = "call"
    /\ UNCHANGED <<msg_fmt, result_msg_fmt, call_kwargs, kwargs, behaviour>>
    /\ UNCHANGED notEcho

\* kwargs['result'] = func(*args, **kwargs)
EchoCall ==
    /\ epc = "call"
    /\ events' = Append(events, Called)
    /\ IF behaviour.raises
       THEN /\ kwargs' = kwargs
            /\ epc' = "raised"
       ELSE /\ kwargs' = SetResult(kwargs, behaviour.ret)
            /\ epc' = "post"
    /\ UNCHANGED <<msg_fmt, result_msg_fmt, call_kwargs, behaviour>>
    /\ UNCHANGED notEcho

\* The rest of wrap: the post message; wrap returns None.
EchoPost ==
    /\ epc = "post"
    /\ IF ~Truthy(result_msg_fmt)
       THEN /\ events' = events
            /\ epc' = "done"
       ELSE IF MissingKey(result_msg_fmt, kwargs)
       THEN /\ events' = events
            /\ epc' = "KeyError"
       ELSE /\ events' = EchoIfAny(events, Render(result_msg_fmt, kwargs))
            /\ epc' = "done"
    /\ UNCHANGED <<msg_fmt, result_msg_fmt, call_kwargs, kwargs, behaviour>>
    /\ UNCHANGED notEcho

-----------------------------------------------------------------------------
(* DeviceGroup dispatch under ExceptionHandlerGroup                         *)

\* The most subcommands given in one invocation.
MaxSubcommands == 2

\* "on", "info", "x", "On", "status"
StrOn == <<111, 110>>
StrInfo == <<105, 110, 102, 111>>
StrX == <<120>>
StrOnMethod == <<79, 110>>
StrStatus == <<115, 116, 97, 116, 117, 115>>

\* The device class of the invocation: a method On decorated with
\* device_command() and a method status decorated with
\* device_command(name="info").
DeviceClassBody ==
    <<[key |-> StrOnMethod, kind |-> "command", name |-> <<>>],
      [key |-> StrStatus, kind |-> "command", name |-> StrInfo]>>

\* The namespace after the first n statements of a class body.
RECURSIVE ClassNamespace(_, _)
ClassNamespace(stmts, n) ==
    IF n = 0 THEN <<>>
    ELSE DictSet(ClassNamespace(stmts, n - 1), stmts[n].key, ValueOf(stmts, n))

\* The table DeviceGroupMeta.__new__ builds from the first n namespace items.
RECURSIVE DeviceGroupCommands(_, _)
DeviceGroupCommands(ns, n) ==
    IF n = 0 THEN <<>>
    ELSE Register(DeviceGroupCommands(ns, n - 1), ns[n].val)

\* DeviceGroup.commands of the invocation's group.
GroupTable ==
    DeviceGroupCommands(ClassNamespace(DeviceClassBody, Len(DeviceClassBody)),
                        Len(ClassNamespace(DeviceClassBody, Len(DeviceClassBody))))

\* Raw --ip values, and those ipaddress.ip_address accepts.
IpValues == {"192.168.1.10", "not-an-ip"}
IpLiterals == {"192.168.1.10"}

\* Raw --token values: 32 and 31 characters.
TokenValues == {Repeat(97, 32), Repeat(97, 31)}

None == [type |-> "None", id |-> 0, debug |-> 0]
GlobalContextObject(debug) == [type |-> "GlobalContextObject", id |-> 0, debug |-> debug]
DeviceObject(id) == [type |-> "Device", id |-> id, debug |-> 0]

\* What a constructor or a method of the device class may raise:
\* miio.DeviceException, a subclass of it, or something else.
Raisable == {"DeviceException", "DeviceError", "ValueError"}

\* isinstance(ex, miio.DeviceException)
IsDeviceException(ex) == ex \in {"DeviceException", "DeviceError"}

\* A plausible slip: the handler gives up on the ValueError.
validate_ip_lenient(value) == Returned(value)

\* validate_ip: ipaddress.ip_address(value) raises ValueError for a non-literal.
validate_ip(value) ==
    IF value \in IpLiterals THEN Returned(value)
    ELSE BadParameter("Invalid IP: %s", <<>>)

\* ctx.find_object(type): the nearest object of that type, from the context
\* outwards; objs are the contexts' objects, innermost first.
FindObject(objs, type) ==
    IF \E i \in 1..Len(objs) : objs[i].type = type
    THEN objs[CHOOSE i \in 1..Len(objs) :
                  /\ objs[i].type = type
                  /\ \A j \in 1..(i - 1) : objs[j].type # type]
    ELSE None

NoKwargs == [ip |-> "", token |-> <<>>, hasDebug |-> FALSE, debug |-> 0]

ConstructEvent(kw, id, ok) ==
    [e |-> "construct", device |-> id, ok |-> ok, kw |-> kw,
     method |-> <<>>, arg |-> 0]

RunEvent(method, device, arg) ==
    [e |-> "run", device |-> device, ok |-> TRUE, kw |-> NoKwargs,
     method |-> method, arg |-> arg]

NumConstructed(log) == Cardinality({i \in 1..Len(log) : log[i].e = "construct"})

\* A plausible slip: the method is looked up by the command's name.
CallByCommandName(cmd, owner, arg) == RunEvent(command_name(cmd), owner.id, arg)

\* Command.call: getattr(owner, self.func.__name__)(*args, **kwargs)
Call(cmd, owner, arg) == RunEvent(cmd.fname, owner.id, arg)

\* DeviceGroup.command_callback
command_callback(cmd, device, arg) == Call(cmd, device, arg)

\* A plausible slip: the pass decorator makes a device of its own for each
\* command instead of taking the context's.
DevicePassFresh(objs, log) ==
    [device |-> DeviceObject(NumConstructed(log) + 1),
     log |-> Append(log, ConstructEvent(NoKwargs, NumConstructed(log) + 1, TRUE))]

\* self.device_pass = click.make_pass_decorator(device_class): the callback
\* gets ctx.find_object(device_class).
DevicePass(objs, log) == [device |-> FindObject(objs, "Device"), log |-> log]

\* A plausible slip: every exception is caught.
CaughtAlways(ex) == TRUE

\* except miio.DeviceException as ex
Caught(ex) == IsDeviceException(ex)

Invocations ==
    UNION {[1..n -> [name : {StrOn, StrInfo, StrX}, arg : {0, 1}]] : n \in 0..MaxSubcommands}

CliInit ==
    /\ chain \in BOOLEAN
    /\ ip \in IpValues
    /\ token \in TokenValues
    /\ gco \in {None, GlobalContextObject(1)}
    /\ argv \in Invocations
    /\ ipDone = FALSE
    /\ tokenDone = FALSE
    /\ ctxObj = gco
    /\ entered = FALSE
    /\ missed = FALSE
    /\ resolved = 0
    /\ ran = 0
    /\ clog = <<>>
    /\ raised = "none"
    /\ output = <<>>
    /\ cpc = "start"

CliIdle ==
    /\ chain = FALSE
    /\ ip = ""
    /\ token = <<>>
    /\ gco = None
    /\ argv = <<>>
    /\ ipDone = FALSE
    /\ tokenDone = FALSE
    /\ ctxObj = None
    /\ entered = FALSE
    /\ missed = FALSE
    /\ resolved = 0
    /\ ran = 0
    /\ clog = <<>>
    /\ raised = "none"
    /\ output = <<>>
    /\ cpc = "idle"

\* ExceptionHandlerGroup.__call__: try: return self.main(*args, **kwargs)
HandlerCall ==
    /\ cpc = "start"
    /\ cpc' = "params"
    /\ UNCHANGED <<chain, ip, token, gco, argv, ipDone, tokenDone, ctxObj, entered,
                   missed, resolved, ran, clog, raised, output>>
    /\ UNCHANGED notCli

\* The --ip option is processed: its callback is validate_ip.
ProcessIp ==
    /\ cpc = "params"
    /\ ~ipDone
    /\ IF validate_ip(ip).exc = "None"
       THEN /\ ipDone' = TRUE
            /\ raised' = raised
            /\ cpc' = cpc
       ELSE /\ ipDone' = ipDone
            /\ raised' = validate_ip(ip).exc
            /\ cpc' = "unwind"
    /\ UNCHANGED <<chain, ip, token, gco, argv, tokenDone, ctxObj, entered,
                   missed, resolved, ran, clog, output>>
    /\ UNCHANGED notCli

\* The --token option is processed: its callback is validate_token.
ProcessToken ==
    /\ cpc = "params"
    /\ ~tokenDone
    /\ IF validate_token(token).exc = "None"
       THEN /\ tokenDone' = TRUE
            /\ raised' = raised
            /\ cpc' = cpc
       ELSE /\ tokenDone' = tokenDone
            /\ raised' = validate_token(token).exc
            /\ cpc' = "unwind"
    /\ UNCHANGED <<chain, ip, token, gco, argv, ipDone, ctxObj, entered,
                   missed, resolved, ran, clog, output>>
    /\ UNCHANGED notCli

\* The options are parsed and the group is invoked. Without a subcommand the
\* invocation is a usage error ("Missing command."); a chaining group runs its
\* callback before it resolves the subcommands, any other group after it has
\* resolved the one subcommand.
GroupInvoke ==
    /\ cpc = "params"
    /\ ipDone /\ tokenDone
    /\ IF argv = <<>>
       THEN /\ raised' = "UsageError"
            /\ cpc' = "unwind"
       ELSE /\ raised' = raised
            /\ cpc' = IF chain THEN "callback" ELSE "resolve"
    /\ UNCHANGED <<chain, ip, token, gco, argv, ipDone, tokenDone, ctxObj, entered,
                   missed, resolved, ran, clog, output>>
    /\ UNCHANGED notCli

\* DeviceGroup.get_command(ctx, cmd_name): cmd = self.commands[cmd_name] raises
\* KeyError for a name that is no key; else the descriptor is wrapped into a
\* command around device_pass(partial(command_callback, cmd)).
GetCommand ==
    /\ cpc = "resolve"
    /\ resolved < Len(argv)
    /\ IF ~DictHas(GroupTable, argv[resolved + 1].name)
       THEN /\ missed' = TRUE
            /\ raised' = "KeyError"
            /\ resolved' = resolved
            /\ cpc' = "unwind"
       ELSE /\ missed' = missed
            /\ raised' = raised
            /\ resolved' = resolved + 1
            /\ cpc' = IF ~chain THEN "callback"
                      ELSE IF resolved + 1 = Len(argv) THEN "run"
                      ELSE "resolve"
    /\ UNCHANGED <<chain, ip, token, gco, argv, ipDone, tokenDone, ctxObj, entered,
                   ran, clog, output>>
    /\ UNCHANGED notCli

\* DeviceGroup.group_callback(ctx, ip=..., token=...): the debug level of the
\* GlobalContextObject, when one is found, is added to the keyword arguments;
\* the device class is constructed and stored as ctx.obj. The constructor may
\* raise.
GroupCallback ==
    /\ cpc = "callback"
    /\ entered' = TRUE
    /\ LET found == FindObject(<<ctxObj, gco>>, "GlobalContextObject")
           kw == [ip |-> ip, token |-> token,
                  hasDebug |-> found.type # "None", debug |-> found.debug]
           id == NumConstructed(clog) + 1
       IN \/ /\ clog' = Append(clog, ConstructEvent(kw, id, TRUE))
             /\ ctxObj' = DeviceObject(id)
             /\ raised' = raised
             /\ cpc' = IF chain THEN "resolve" ELSE "subctx"
          \/ \E ex \in Raisable :
                /\ clog' = Append(clog, ConstructEvent(kw, id, FALSE))
                /\ ctxObj' = ctxObj
                /\ raised' = ex
                /\ cpc' = "unwind"
    /\ UNCHANGED <<chain, ip, token, gco, argv, ipDone, tokenDone,
                   missed, resolved, ran, output>>
    /\ UNCHANGED notCli

\* A group that does not chain hands every argument after the subcommand's name
\* to that subcommand's parser, which rejects a second subcommand as an
\* unexpected extra argument.
SubContext ==
    /\ cpc = "subctx"
    /\ IF Len(argv) > 1
       THEN /\ raised' = "UsageError"
            /\ cpc' = "unwind"
       ELSE /\ raised' = raised
            /\ cpc' = "run"
    /\ UNCHANGED <<chain, ip, token, gco, argv, ipDone, tokenDone, ctxObj, entered,
                   missed, resolved, ran, clog, output>>
    /\ UNCHANGED notCli

\* A resolved subcommand runs: device_pass finds the device in the context
\* (RuntimeError when there is none), command_callback(cmd, device, ...) calls
\* cmd.call(device, ...), which calls the method. The method may raise.
RunSubcommand ==
    /\ cpc = "run"
    /\ ran < resolved
    /\ LET cmd == DictGet(GroupTable, argv[ran + 1].name)
           \* the subcommand's context starts with the group's ctx.obj as its own
           pass == DevicePass(<<ctxObj, ctxObj, gco>>, clog)
       IN IF pass.device.type = "None"
          THEN /\ clog' = pass.log
               /\ raised' = "RuntimeError"
               /\ ran' = ran
               /\ cpc' = "unwind"
          ELSE /\ clog' = Append(pass.log, command_callback(cmd, pass.device, argv[ran + 1].arg))
               /\ \/ /\ raised' = raised
                     /\ ran' = ran + 1
                     /\ cpc' = IF ran + 1 = resolved THEN "finish" ELSE "run"
                  \/ \E ex \in Raisable :
                        /\ raised' = ex
                        /\ ran' = ran
                        /\ cpc' = "unwind"
    /\ UNCHANGED <<chain, ip, token, gco, argv, ipDone, tokenDone, ctxObj, entered,
                   missed, resolved, output>>
    /\ UNCHANGED notCli

\* self.main(...) itself ends the process: SystemExit(0) after the invocation,
\* SystemExit(2) for a usage error, which it reports. SystemExit is no
\* DeviceException: the wrapper lets it through.
MainExit ==
    /\ cpc \in {"finish", "unwind"}
    /\ raised \in {"none", "BadParameter", "UsageError"}
    /\ cpc' = "SystemExit"
    /\ UNCHANGED <<chain, ip, token, gco, argv, ipDone, tokenDone, ctxObj, entered,
                   missed, resolved, ran, clog, raised, output>>
    /\ UNCHANGED notCli

\* except miio.DeviceException as ex: log at debug level, echo one line.
\* Anything else leaves __call__ as it came.
HandlerExcept ==
    /\ cpc = "unwind"
    /\ raised \notin {"none", "BadParameter", "UsageError"}
    /\ IF Caught(raised)
       THEN /\ output' = Append(output, [fmt |-> "Error: %s", arg |-> raised])
            /\ cpc' = "returned"
       ELSE /\ output' = output
            /\ cpc' = "propagated"
    /\ UNCHANGED <<chain, ip, token, gco, argv, ipDone, tokenDone, ctxObj, entered,
                   missed, resolved, ran, clog, raised>>
    /\ UNCHANGED notCli

-----------------------------------------------------------------------------
(* Specifications                                                          *)

InitValidate == TokenInit /\ MetaIdle /\ WrapIdle /\ EchoIdle /\ CliIdle

NextValidate == ValidateToken

SpecValidate == InitValidate /\ [][NextValidate]_vars

InitMeta == TokenIdle /\ MetaInit /\ WrapIdle /\ EchoIdle /\ CliIdle

NextMeta ==
    \/ ExecStatement
    \/ EndOfBody
    \/ MetaScan
    \/ MetaFinish
    \/ DeviceGroupInit
    \/ ListCommands

SpecMeta == InitMeta /\ [][NextMeta]_vars

InitWrap == TokenIdle /\ MetaIdle /\ WrapInit /\ EchoIdle /\ CliIdle

NextWrap ==
    \/ CommandInit
    \/ WrapApply
    \/ WrapReturn
    \/ CommandRun

SpecWrap == InitWrap /\ [][NextWrap]_vars

InitEcho == TokenIdle /\ MetaIdle /\ WrapIdle /\ EchoInit /\ CliIdle

NextEcho ==
    \/ EchoPre
    \/ EchoCall
    \/ EchoPost

SpecEcho == InitEcho /\ [][NextEcho]_vars

InitCli == TokenIdle /\ MetaIdle /\ WrapIdle /\ EchoIdle /\ CliInit

NextCli ==
    \/ HandlerCall
    \/ ProcessIp
    \/ ProcessToken
    \/ GroupInvoke
    \/ GetCommand
    \/ GroupCallback
    \/ SubContext
    \/ RunSubcommand
    \/ MainExit
    \/ HandlerExcept

SpecCli == InitCli /\ [][NextCli]_vars

-----------------------------------------------------------------------------
(* C8: validate_token returns its input unchanged if and only if the input *)
(* has length exactly 32, whatever its characters; for every other length  *)
(* it fails with a parameter error whose message carries the actual length.*)
C8_TokenLengthOnly ==
    tpc = "done" =>
        /\ (tresult.exc = "None") <=> (Len(tvalue) = 32)
        /\ tresult.exc = "None" => tresult.value = tvalue
        /\ Len(tvalue) # 32 =>
              /\ tresult.exc = "BadParameter"
              /\ DecimalValue(tresult.msg.arg) = Len(tvalue)

\* A 32-character token that is no hexadecimal string is returned unchanged.
C8_Witness ==
    /\ tpc = "done"
    /\ tvalue = Repeat(122, 32)
    /\ tresult.exc = "None"
    /\ tresult.value = tvalue

-----------------------------------------------------------------------------
(* The invocation                                                           *)

ValidOptions == ip \in {"192.168.1.10"} /\ Len(token) = 32

Terminated == cpc \in {"SystemExit", "returned", "propagated"}

Constructions == {i \in 1..Len(clog) : clog[i].e = "construct"}

Runs == {i \in 1..Len(clog) : clog[i].e = "run"}

Registered(name) == name \in {StrOn, StrInfo}

C2_InvalidOptionsNeverConstruct ==
    ~ValidOptions =>
        /\ Constructions = {}
        /\ ~entered
        /\ cpc \in {"start", "params", "unwind", "SystemExit"}
        /\ resolved = 0
        /\ Terminated => (raised = "BadParameter" /\ cpc = "SystemExit")

\* An invocation with a bad address, a good token and a subcommand has ended
\* in BadParameter with nothing constructed.
C2_Witness ==
    /\ Terminated
    /\ ip = "not-an-ip"
    /\ Len(token) = 32
    /\ argv # <<>>
    /\ raised = "BadParameter"
    /\ clog = <<>>

\* C3: when the wrapped program raises miio.DeviceException (or a subclass),
\* during device construction or during a subcommand, exactly one error line is
\* printed and the call returns without re-raising; when it raises anything
\* else the wrapper prints nothing and the exception propagates.
C3_DeviceExceptionCaughtOnce ==
    /\ ~Terminated => output = <<>>
    /\ Terminated =>
          /\ raised \in {"DeviceException", "DeviceError"} =>
                (cpc = "returned" /\ Len(output) = 1 /\ output[1].arg = raised)
          /\ raised \notin {"DeviceException", "DeviceError"} =>
                (cpc # "returned" /\ output = <<>>)
          /\ raised \in {"ValueError", "KeyError", "RuntimeError"} => cpc = "propagated"

\* A subcommand raised a subclass of DeviceException after the device was
\* constructed: one line, normal return.
C3_Witness ==
    /\ cpc = "returned"
    /\ raised = "DeviceError"
    /\ Runs # {}
    /\ Len(output) = 1

\* C4: resolving a subcommand name that is not in the command table yields the
\* not-found outcome the parsing engine reports as its unknown-command usage
\* error, get_command fails in no other way, and no device is constructed in
\* that invocation.
C4_UnknownCommandReported ==
    (Terminated /\ missed) =>
        /\ raised = "UsageError"
        /\ cpc = "SystemExit"
        /\ Constructions = {}

\* The method each registered command name stands for.
MethodOf(name) == IF name = StrOn THEN StrOnMethod ELSE StrStatus

\* C9: the device is constructed by the group callback strictly before the body
\* of any subcommand runs; each subcommand's execution calls the descriptor's
\* method, looked up by the original method name, on that handle with the
\* parsed arguments forwarded; no method runs on an absent handle or on another
\* instance than the one stored in the context.
C9_ConstructedBeforeAnyRun ==
    \A r \in Runs :
        /\ \E c \in Constructions : c < r /\ clog[c].ok /\ clog[c].device = clog[r].device
        /\ ctxObj.type = "Device" /\ ctxObj.id = clog[r].device
        /\ LET k == Cardinality({q \in Runs : q <= r})
           IN /\ k <= Len(argv)
              /\ clog[r].method = MethodOf(argv[k].name)
              /\ clog[r].arg = argv[k].arg

\* "info 1" then "on 0", chained: status(1) then On(0) ran on device 1, which
\* was constructed first.
C9_Witness ==
    /\ chain
    /\ Len(clog) = 3
    /\ clog[1].e = "construct"
    /\ clog[2] = RunEvent(StrStatus, 1, 1)
    /\ clog[3] = RunEvent(StrOnMethod, 1, 0)
    /\ ctxObj = DeviceObject(1)

-----------------------------------------------------------------------------
(* The registry: which descriptor the table holds for a derived name        *)

\* The positions of the namespace that hold a registered method.
Methods == {i \in 1..Len(namespace) : namespace[i].val.kind = "command"}

DerivedName(i) ==
    IF namespace[i].val.name # <<>> THEN namespace[i].val.name
    ELSE Lower(namespace[i].val.fname)

\* The positions of the table that hold an entry for the name n.
Entries(n) == {k \in 1..Len(commands) : commands[k].key = n}

SetMax(S) == CHOOSE x \in S : \A y \in S : y <= x

ClassDefined == usesMeta /\ mpc \in {"class", "group"}

\* C5 as stated: for every class built by DeviceGroupMeta the table has at most
\* one entry per derived command name, and when several methods of the class
\* derive the same name, class definition succeeds and the one entry is the
\* descriptor of the method declared last among them.
C5_LaterDeclaredWins ==
    ClassDefined =>
        /\ \A k \in 1..Len(commands) : \E i \in Methods : DerivedName(i) = commands[k].key
        /\ \A i \in Methods :
              /\ Cardinality(Entries(DerivedName(i))) = 1
              /\ \A k \in Entries(DerivedName(i)) :
                    commands[k].val.id =
                        SetMax({namespace[j].val.id : j \in {j \in Methods : DerivedName(j) = DerivedName(i)}})

\* C5 amended: the one entry is the descriptor of the method that comes last in
\* the namespace's iteration order among those deriving the name, i.e. the
\* method whose attribute name was first bound last in the class body.
C5_LastInNamespaceWins ==
    ClassDefined =>
        /\ \A k \in 1..Len(commands) : \E i \in Methods : DerivedName(i) = commands[k].key
        /\ \A i \in Methods :
              /\ Cardinality(Entries(DerivedName(i))) = 1
              /\ \A k \in Entries(DerivedName(i)) :
                    commands[k].val.id =
                        namespace[SetMax({j \in Methods : DerivedName(j) = DerivedName(i)})].val.id

\* Methods "S" and "s" both derive "s"; the table holds the one entry, of "s".
C5_Witness ==
    /\ ClassDefined
    /\ body = <<[key |-> <<83>>, kind |-> "command", name |-> <<>>],
                [key |-> <<115>>, kind |-> "command", name |-> <<>>]>>
    /\ Len(commands) = 1
    /\ commands[1].key = <<115>>
    /\ commands[1].val.id = 2

\* C7: list_commands returns exactly the names registered in the table, each
\* once, in ascending lexicographic order, and the same sequence on every call.
C7_ListSorted ==
    nlist >= 1 =>
        /\ {listing[i] : i \in 1..Len(listing)} =
               {groupCommands.table[k].key : k \in 1..Len(groupCommands.table)}
        /\ Len(listing) = Cardinality({listing[i] : i \in 1..Len(listing)})
        /\ \A i \in 1..Len(listing), j \in 1..Len(listing) :
              i < j => LexLess(listing[i], listing[j])
        /\ nlist >= 2 => listing = prevListing

\* A table filled in the order "sa", "s", "b" is listed as "b", "s", "sa",
\* twice.
C7_Witness ==
    /\ nlist = 2
    /\ DictKeys(groupCommands.table) = <<<<115, 97>>, <<115>>, <<98>>>>
    /\ listing = <<<<98>>, <<115>>, <<115, 97>>>>
    /\ prevListing = listing

-----------------------------------------------------------------------------
(* Decorator order                                                          *)

\* d1(d2(...dn(f)...))
RECURSIVE Nested(_)
Nested(ds) == IF ds = <<>> THEN <<0>> ELSE <<Head(ds)>> \o Nested(Tail(ds))

\* C10: for a descriptor declared with d1, ..., dn, wrap(f) builds
\* d1(d2(...dn(f)...)): each decorator is applied exactly once, in reverse
\* declaration order, and the first-declared one is entered first and left last
\* when the command runs; for every n >= 0.
C10_FirstDeclaredOutermost ==
    wpc \in {"command", "ran"} =>
        /\ wfunc = Nested(declared)
        /\ Len(applied) = Len(declared)
        /\ \A i \in 1..Len(declared) : applied[i] = declared[Len(declared) + 1 - i]
        /\ (wpc = "ran" /\ declared # <<>>) =>
              /\ wtrace[1] = [e |-> "enter", d |-> declared[1]]
              /\ wtrace[Len(wtrace)] = [e |-> "leave", d |-> declared[1]]
              /\ Len(wtrace) = 2 * Len(declared) + 1
        /\ (wpc = "ran" /\ declared = <<>>) => wtrace = <<[e |-> "body", d |-> 0]>>

\* Declared with 1, 2, 3: decorator 3 is applied first, 1 last, and the run
\* enters 1 first.
C10_Witness ==
    /\ wpc = "ran"
    /\ declared = <<1, 2, 3>>
    /\ applied = <<3, 2, 1>>
    /\ wfunc = <<1, 2, 3, 0>>
    /\ wtrace[1].d = 1

-----------------------------------------------------------------------------
(* The echo decorator's event order                                         *)

\* The claim is about a pre template and a post template, both set.
BothTemplates ==
    /\ msg_fmt.kind = "str" /\ msg_fmt.parts # <<>>
    /\ result_msg_fmt.kind = "str" /\ result_msg_fmt.parts # <<>>

\* The keyword arguments plus the return value under key 'result'.
KwargsWithResult ==
    [k \in DOMAIN call_kwargs \cup {"result"} |->
        IF k = "result" THEN behaviour.ret ELSE call_kwargs[k]]

Renders(fmt, kw) ==
    \A i \in 1..Len(fmt.parts) : fmt.parts[i].t = "field" => fmt.parts[i].f \in DOMAIN kw

\* C6 as stated: on each call the pre message rendered from the keyword
\* arguments is printed, then the wrapped function is called exactly once, then
\* the post message rendered from the keyword arguments plus 'result' is
\* printed; if the wrapped function raises, no post message is printed.
C6_PreCallPost ==
    (BothTemplates /\ Renders(msg_fmt, call_kwargs)
                   /\ Renders(result_msg_fmt, KwargsWithResult)) =>
        /\ epc = "done" =>
              events = <<Echoed(Format(msg_fmt.parts, call_kwargs)), Called,
                         Echoed(Format(result_msg_fmt.parts, KwargsWithResult))>>
        /\ epc = "raised" =>
              events = <<Echoed(Format(msg_fmt.parts, call_kwargs)), Called>>

\* What printing a rendered message adds: nothing for an empty rendering, else
\* the rendering without its leading and trailing whitespace.
Printed(msg) == IF msg = <<>> THEN <<>> ELSE <<Echoed(Strip(msg))>>

\* C6 amended: each message is printed only if its rendering is not empty, and
\* is printed stripped of leading and trailing whitespace; the order is pre
\* message, one call, post message; if the function raises no post message is
\* printed; if a template names a key that is missing, the call ends there.
C6_PreCallPostStripped ==
    BothTemplates =>
        /\ epc = "done" =>
              events = Printed(Format(msg_fmt.parts, call_kwargs)) \o <<Called>>
                       \o Printed(Format(result_msg_fmt.parts, KwargsWithResult))
        /\ epc = "raised" =>
              events = Printed(Format(msg_fmt.parts, call_kwargs)) \o <<Called>>
        /\ epc = "KeyError" =>
              events = IF Renders(msg_fmt, call_kwargs)
                       THEN Printed(Format(msg_fmt.parts, call_kwargs)) \o <<Called>>
                       ELSE <<>>

\* 'doing {x}' and 'got {result}' with x=5 and a return of 10: "doing 5", the
\* call, "got 10".
C6_Witness ==
    /\ epc = "done"
    /\ msg_fmt = StrFmt(<<Lit(<<100, 111, 105, 110, 103, 32>>), Field("x")>>)
    /\ result_msg_fmt = StrFmt(<<Lit(<<103, 111, 116, 32>>), Field("result")>>)
    /\ call_kwargs = ("x" :> IntVal(5))
    /\ behaviour = [raises |-> FALSE, ret |-> IntVal(10)]
    /\ events = <<Echoed(<<100, 111, 105, 110, 103, 32, 53>>), Called,
                  Echoed(<<103, 111, 116, 32, 49, 48>>)>>

====
